---------------------------- MODULE Spec2Model ----------------------------
(***************************************************************************)
(* A model of ast-importer/src/translator.rs: the lowering of a serialized *)
(* Clang AST (AstContext) to a Rust AST.                                   *)
(*                                                                         *)
(* The driver `translate` is the state machine: one step per iteration of  *)
(* its two loops over top_nodes, then the emission of the items.  The      *)
(* recursive lowering (add_function, convert_stmt, convert_expr, ...) is a *)
(* family of recursive operators that thread the mutable part of           *)
(* `Translation` (`self`) and return either a value or a panic.            *)
(*                                                                         *)
(* Encoding of the Rust AST built through mk():                            *)
(*   expressions  <<"Path", name>>            <<"Lit", n>>                  *)
(*                <<"FloatLit", str>>         <<"Binary", op, l, r>>        *)
(*                <<"MethodCall", recv, method, args>>                     *)
(*                <<"Cast", e, ty>>           <<"Unary", op, e>>            *)
(*                <<"AddrOf", e>>             <<"Assign", l, r>>            *)
(*                <<"Call", f, args>>         <<"Field", e, name>>          *)
(*                <<"Block", stmts>>          <<"While", cond, stmts>>      *)
(*                <<"If", cond, stmts, else>> <<"Return", opt>>             *)
(*   statements   <<"Local", mode, name, ty, init>>   <<"Expr", e>>         *)
(*   items        <<"Fn", name, args, ret, stmts>>                          *)
(*   types        <<"Ty", path>>              <<"PtrTy", ty>>               *)
(* An Option is a sequence: <<>> is None and <<x>> is Some(x).             *)
(***************************************************************************)
EXTENDS Integers, Sequences, FiniteSets, TLC

\* ------------------------------------------------------------------ bounds

\* Longest typedef chain in the type table of the input.
MaxTypedef == 2
\* Largest number of arguments of a CallExpr of the input.
MaxArgs == 2
\* Deepest nesting of CompoundStmts around the statement under translation.
MaxNest == 2

VARIABLES
    ast_context,   \* Translation.ast_context: the input (its scenario), read-only
    items,         \* Translation.items
    renamer,       \* Translation.renamer
    lowered,       \* history: expression node id -> the WithStmts it lowered to
    pc,            \* position of `translate`
    top_idx,       \* index of the current loop of `translate` into top_nodes
    output         \* what `translate` returned: <<>> until then

vars == <<ast_context, items, renamer, lowered, pc, top_idx, output>>

\* ------------------------------------------------------- the input: types

None == <<>>
Some(x) == <<x>>

\* Type ids of the input's type table.  int, unsigned int, int *, the type
\* of the functions, and two typedef chains ending in unsigned int and in
\* int *: chain k is a typedef of chain k-1.
TypeIds ==
    [int |-> 1, uint |-> 2, ptr |-> 3, fn |-> 4, utypedef |-> 10, ptypedef |-> 20]

UTypedefs == {TypeIds.utypedef + k : k \in 1..MaxTypedef}
PTypedefs == {TypeIds.ptypedef + k : k \in 1..MaxTypedef}

TypeTable ==
    [i \in {TypeIds.int, TypeIds.uint, TypeIds.ptr, TypeIds.fn} \cup UTypedefs \cup PTypedefs |->
        CASE i = TypeIds.int  -> [tag |-> "TagInt", extras |-> <<>>]
          [] i = TypeIds.uint -> [tag |-> "TagUInt", extras |-> <<>>]
          [] i = TypeIds.ptr  -> [tag |-> "TagPointer", extras |-> <<TypeIds.int>>]
          [] i = TypeIds.fn   -> [tag |-> "TagFunctionType", extras |-> <<TypeIds.int>>]
          [] i \in UTypedefs  ->
                [tag |-> "TagTypedefType",
                 extras |-> <<IF i = TypeIds.utypedef + 1 THEN TypeIds.uint ELSE i - 1>>]
          [] i \in PTypedefs  ->
                [tag |-> "TagTypedefType",
                 extras |-> <<IF i = TypeIds.ptypedef + 1 THEN TypeIds.ptr ELSE i - 1>>]]

\* The types an expression node of the input may carry.
ExprTypes == {TypeIds.int, TypeIds.uint, TypeIds.ptr} \cup UTypedefs \cup PTypedefs


\* ------------------------------------------------------- the input: nodes

\* An entry of AstNode.extras: a tagged scalar.
Str(s) == <<"Str", s>>
U64(n) == <<"U64", n>>
F64(n) == <<"F64", n>>

Node(tag, children, type_id, extras) ==
    [tag |-> tag, children |-> children, type_id |-> type_id, extras |-> extras]

\* Operator spellings of the input.
ArithOps == {"+", "-", "*", "/", "%"}
BitOps == {"^", ">>", "&", "|"}
RelOps == {"==", "!=", "<", ">", "<=", ">="}
LogicOps == {"&&", "||"}
CompoundOps == {"+=", "-=", "*=", "/=", "%=", "^=", "<<=", ">>=", "|=", "&="}
AssignOps == CompoundOps \cup {"="}
\* "<<" and "," are C operators too.
BinOps == ArithOps \cup BitOps \cup RelOps \cup LogicOps \cup AssignOps \cup {"<<", ","}

\* Node ids of the input.  One function f(a, b) whose body holds, inside
\* `nest` CompoundStmts that each redeclare a, one statement built around
\* the expression e0 with the children e1 and e2, whose own children are
\* fixed leaves; an optional trailing `return a;`; a second function g, a
\* typedef, a struct with the field fld and a global; `missing` is in no
\* table.
Ids ==
    [f |-> 1, a |-> 2, b |-> 3, fld |-> 4, g |-> 5, tdef |-> 6, rec |-> 7,
     gvar |-> 8, body |-> 10, stmt |-> 11, tail |-> 12, tail_ref |-> 13,
     branch |-> 14, els |-> 15, local |-> 16,
     e0 |-> 20, e1 |-> 21, e2 |-> 22, e2l |-> 23, e2r |-> 24, e1l |-> 25,
     e1r |-> 26, fnref |-> 30, gbody |-> 31, arg |-> 40,
     missing |-> 99, nest |-> 100, nest_decl |-> 120, nest_var |-> 140]

\* The expression node of one slot: `kind` picks the construct, `op` its
\* operator spelling, `ty` its C type, `decl` the declaration a DeclRefExpr
\* refers to, `kids` the children of a construct that has some.
SlotNode(kind, op, ty, decl, kids) ==
    CASE kind = "ref"    -> Node("TagDeclRefExpr", <<Some(decl)>>, Some(ty), <<>>)
      [] kind = "lit"    -> Node("TagIntegerLiteral", <<>>, Some(ty), <<U64(1)>>)
      [] kind = "chr"    -> Node("TagCharacterLiteral", <<>>, Some(ty), <<U64(65)>>)
      [] kind = "flt"    -> Node("TagFloatingLiteral", <<>>, Some(ty), <<F64(2)>>)
      [] kind = "bin"    -> Node("TagBinaryOperator", SubSeq(kids, 1, 2), Some(ty), <<Str(op)>>)
      [] kind = "unary"  -> Node("TagUnaryOperator", SubSeq(kids, 1, 1), Some(ty), <<Str(op)>>)
      [] kind = "cast"   -> Node("TagImplicitCastExpr", SubSeq(kids, 1, 1), Some(ty), <<>>)
      [] kind = "member" -> Node("TagMemberExpr", <<kids[1], Some(Ids.fld)>>, Some(ty), <<>>)
      [] kind = "call"   -> Node("TagCallExpr", <<Some(Ids.fnref)>> \o kids, Some(ty), <<>>)
      [] kind = "paren"  -> Node("TagParenExpr", SubSeq(kids, 1, 1), Some(ty), <<>>)

\* The arguments of the call in slot e0: e1, e2, then integer literals.
CallArgs(n) ==
    [i \in 1..n |-> Some(IF i = 1 THEN Ids.e1 ELSE IF i = 2 THEN Ids.e2 ELSE Ids.arg + i)]

TopNodes(top) ==
    CASE top = "plain"         -> <<Ids.f>>
      [] top = "dangling"      -> <<Ids.missing, Ids.f>>
      [] top = "dangling_last" -> <<Ids.f, Ids.missing>>
      [] top = "typedef"       -> <<Ids.tdef, Ids.f>>
      [] top = "record"        -> <<Ids.rec, Ids.f>>
      [] top = "global"        -> <<Ids.gvar, Ids.f>>
      [] top = "two"           -> <<Ids.g, Ids.f>>
      [] top = "two_after"     -> <<Ids.f, Ids.g>>

TopShapes ==
    {"plain", "dangling", "dangling_last", "typedef", "record", "global", "two", "two_after"}

\* The id of the statement under translation: an expression statement is
\* the expression node itself.
StmtId(p) == IF p.stmt = "expr" THEN Ids.e0 ELSE Ids.stmt

StmtNode(p) ==
    CASE p.stmt = "return"      -> Node("TagReturnStmt", <<Some(Ids.e0)>>, None, <<>>)
      [] p.stmt = "return_void" -> Node("TagReturnStmt", <<None>>, None, <<>>)
      [] p.stmt = "if"          ->
            Node("TagIfStmt", <<Some(Ids.e0), Some(Ids.branch), None>>, None, <<>>)
      [] p.stmt = "ifelse"      ->
            Node("TagIfStmt", <<Some(Ids.e0), Some(Ids.branch), Some(Ids.els)>>, None, <<>>)
      [] p.stmt = "while"       ->
            Node("TagWhileStmt", <<Some(Ids.e0), Some(Ids.branch)>>, None, <<>>)
      [] p.stmt = "decl"        -> Node("TagDeclStmt", <<Some(Ids.local)>>, None, <<>>)
      [] p.stmt = "baddecl"     -> Node("TagDeclStmt", <<Some(Ids.tdef)>>, None, <<>>)
      [] p.stmt = "null"        -> Node("TagNullStmt", <<>>, None, <<>>)
      [] p.stmt = "expr"        -> Node("TagNullStmt", <<>>, None, <<>>)

StmtShapes ==
    {"expr", "return", "return_void", "if", "ifelse", "while", "decl", "baddecl", "null"}

\* The ids of the nodes in the tables of scenario p: a slot of kind
\* "dangling" is referred to and is in no table.
NodeIds(p) ==
    ({Ids.f, Ids.a, Ids.b, Ids.fld, Ids.g, Ids.tdef, Ids.rec, Ids.gvar, Ids.body,
      Ids.stmt, Ids.tail, Ids.tail_ref, Ids.branch, Ids.els, Ids.local, Ids.e0, Ids.e1,
      Ids.e2, Ids.e2l, Ids.e2r, Ids.e1l, Ids.e1r, Ids.fnref, Ids.gbody}
        \cup {Ids.arg + k : k \in 3..MaxArgs}
        \cup {Ids.nest + k : k \in 1..p.nest}
        \cup {Ids.nest_decl + k : k \in 1..p.nest}
        \cup {Ids.nest_var + k : k \in 1..p.nest})
    \ ((IF p.k1 = "dangling" THEN {Ids.e1} ELSE {})
        \cup (IF p.k2 = "dangling" THEN {Ids.e2} ELSE {}))

\* ast_nodes[i] of scenario p.
NodeAt(p, i) ==
    LET first == IF p.nest > 0 THEN Ids.nest + 1 ELSE StmtId(p)
    IN  CASE i = Ids.f ->
                Node("TagFunctionDecl", <<Some(Ids.a), Some(Ids.b), Some(Ids.body)>>,
                     Some(TypeIds.fn), <<Str("f")>>)
          [] i = Ids.a -> Node("TagParmVarDecl", <<>>, Some(TypeIds.int), <<Str("a")>>)
          [] i = Ids.b -> Node("TagParmVarDecl", <<>>, Some(TypeIds.int), <<Str("b")>>)
          [] i = Ids.fld -> Node("TagFieldDecl", <<>>, Some(TypeIds.int), <<Str("fld")>>)
          [] i = Ids.g ->
                Node("TagFunctionDecl", <<Some(Ids.gbody)>>, Some(TypeIds.fn), <<Str("g")>>)
          [] i = Ids.tdef -> Node("TagTypedefDecl", <<>>, Some(TypeIds.uint), <<Str("T")>>)
          [] i = Ids.rec -> Node("TagRecordDecl", <<Some(Ids.fld)>>, None, <<Str("S")>>)
          [] i = Ids.gvar -> Node("TagVarDecl", <<None>>, Some(TypeIds.int), <<Str("gv")>>)
          [] i = Ids.body ->
                Node("TagCompoundStmt",
                     IF p.tail THEN <<Some(first), Some(Ids.tail)>> ELSE <<Some(first)>>,
                     None, <<>>)
          [] i = Ids.stmt -> StmtNode(p)
          [] i = Ids.tail -> Node("TagReturnStmt", <<Some(Ids.tail_ref)>>, None, <<>>)
          [] i = Ids.tail_ref -> SlotNode("ref", "", TypeIds.int, Ids.a, <<>>)
          [] i = Ids.branch -> Node("TagReturnStmt", <<Some(Ids.tail_ref)>>, None, <<>>)
          [] i = Ids.els -> Node("TagNullStmt", <<>>, None, <<>>)
          [] i = Ids.local ->
                Node("TagVarDecl", <<Some(Ids.e0)>>, Some(TypeIds.int), <<Str("x")>>)
          [] i = Ids.e0 ->
                SlotNode(p.k0, p.op0, p.ty0, Ids.a,
                         IF p.k0 = "call" THEN CallArgs(p.nargs)
                         ELSE <<Some(Ids.e1), Some(Ids.e2)>>)
          [] i = Ids.e1 ->
                SlotNode(p.k1, p.op1, p.ty1, Ids.a, <<Some(Ids.e1l), Some(Ids.e1r)>>)
          [] i = Ids.e2 ->
                SlotNode(p.k2, p.op2, p.ty2, Ids.b, <<Some(Ids.e2l), Some(Ids.e2r)>>)
          [] i = Ids.e1l -> SlotNode("ref", "", p.ty1, Ids.b, <<>>)
          [] i = Ids.e1r -> SlotNode("lit", "", TypeIds.int, Ids.a, <<>>)
          [] i = Ids.e2l -> SlotNode("ref", "", p.ty2, Ids.a, <<>>)
          [] i = Ids.e2r -> SlotNode("lit", "", TypeIds.int, Ids.a, <<>>)
          [] i = Ids.fnref -> SlotNode("ref", "", TypeIds.fn, Ids.f, <<>>)
          [] i = Ids.gbody -> Node("TagCompoundStmt", <<>>, None, <<>>)
          [] i > Ids.arg /\ i < Ids.missing ->
                SlotNode("lit", "", TypeIds.int, Ids.a, <<>>)
          [] i > Ids.nest /\ i < Ids.nest_decl ->
                Node("TagCompoundStmt",
                     <<Some(Ids.nest_decl + (i - Ids.nest)),
                       Some(IF i - Ids.nest < p.nest THEN i + 1 ELSE StmtId(p))>>,
                     None, <<>>)
          [] i > Ids.nest_decl /\ i < Ids.nest_var ->
                Node("TagDeclStmt", <<Some(Ids.nest_var + (i - Ids.nest_decl))>>, None, <<>>)
          [] i > Ids.nest_var ->
                Node("TagVarDecl", <<None>>, Some(TypeIds.int), <<Str("a")>>)

\* The AstContext in state ast_context, which holds the scenario it was
\* built from: its top_nodes, ast_nodes and types.
top_nodes == TopNodes(ast_context.top)

\* ------------------------------------------------- clang_ast: AstContext

\* AstContext.ast_nodes.get(&id)
get_node(id) ==
    IF id \in NodeIds(ast_context) THEN Some(NodeAt(ast_context, id)) ELSE None

\* AstContext::get_type
get_type(type_id) ==
    IF type_id \in DOMAIN TypeTable THEN Some(TypeTable[type_id]) ELSE None

\* expect_string(&node.extras[i]) and expect_u64(&node.extras[i]): None
\* stands for the panic of an index out of range as for a scalar of the
\* other type.
expect_string(extras, i) ==
    IF i <= Len(extras) /\ extras[i][1] = "Str" THEN Some(extras[i][2]) ELSE None

expect_u64(extras, i) ==
    IF i <= Len(extras) /\ extras[i][1] = "U64" THEN Some(extras[i][2]) ELSE None

expect_f64(extras, i) ==
    IF i <= Len(extras) /\ extras[i][1] = "F64" THEN Some(extras[i][2]) ELSE None

\* AstNode::get_decl_name: the name of a declaration node.
get_decl_name(node) ==
    IF node.tag \in {"TagFunctionDecl", "TagVarDecl", "TagParmVarDecl", "TagFieldDecl",
                     "TagTypedefDecl", "TagRecordDecl"}
    THEN expect_string(node.extras, 1)
    ELSE None

\* TypeNode::is_pointer and TypeNode::is_unsigned_integral_type look at the
\* node they are called on; AstContext::resolve_type follows typedefs.
is_pointer(ty) == ty.tag = "TagPointer"

is_unsigned_integral_type(ty) == ty.tag = "TagUInt"

RECURSIVE resolve_type(_)
resolve_type(ty) ==
    IF ty.tag = "TagTypedefType" THEN resolve_type(TypeTable[ty.extras[1]]) ELSE ty

\* TypeConverter::convert: the Rust type of a C type, typedefs chased.
convert_type(type_id) ==
    LET ty == resolve_type(TypeTable[type_id])
    IN  CASE ty.tag = "TagUInt"    -> <<"Ty", <<"libc", "c_uint">>>>
          [] ty.tag = "TagPointer" -> <<"PtrTy", <<"Ty", <<"libc", "c_int">>>>>>
          [] OTHER                 -> <<"Ty", <<"libc", "c_int">>>>

\* ------------------------------------------------------------- Renamer

\* A stack of scopes (the innermost last), each a map from C names to Rust
\* names; the names handed out so far; the counter of fresh().
Renamer_new == [scopes |-> << <<>> >>, used |-> {}, next_fresh |-> 0]

add_scope(rn) == [rn EXCEPT !.scopes = Append(@, <<>>)]

\* Never called by the translator on the last scope.
drop_scope(rn) == [rn EXCEPT !.scopes = SubSeq(@, 1, Len(@) - 1)]

RECURSIVE suffixed(_, _, _)
suffixed(used, basename, i) ==
    LET name == basename \o "_" \o ToString(i)
    IN  IF name \in used THEN suffixed(used, basename, i + 1) ELSE name

\* The name derived from `basename`: itself, or x_1, x_2, ... when taken.
pick_name(rn, basename) ==
    IF basename \in rn.used THEN suffixed(rn.used, basename, 1) ELSE basename

\* Renamer::insert: <<the renamer after, the Option of the chosen name>>.
insert(rn, key, basename) ==
    LET top == rn.scopes[Len(rn.scopes)]
        name == pick_name(rn, basename)
    IN  IF key \in DOMAIN top
        THEN [rn |-> rn, name |-> None]
        ELSE [rn |-> [rn EXCEPT !.scopes[Len(rn.scopes)] = (key :> name) @@ top,
                                !.used = @ \cup {name}],
              name |-> Some(name)]

RECURSIVE get_from(_, _, _)
get_from(scopes, key, i) ==
    IF i = 0 THEN None
    ELSE IF key \in DOMAIN scopes[i] THEN Some(scopes[i][key])
    ELSE get_from(scopes, key, i - 1)

\* Renamer::get: innermost scope outward.
get(rn, key) == get_from(rn.scopes, key, Len(rn.scopes))

\* Renamer::fresh: <<the renamer after, the fresh name>>.
fresh(rn) ==
    LET name == pick_name(rn, "fresh" \o ToString(rn.next_fresh))
    IN  [rn |-> [rn EXCEPT !.next_fresh = @ + 1, !.used = @ \cup {name}], name |-> name]

\* ----------------------------------------------------------- WithStmts

WithStmts(stmts, val) == [stmts |-> stmts, val |-> val]

\* WithStmts::new
WithStmts_new(val) == WithStmts(<<>>, val)

\* WithStmts::to_expr
to_expr(ws) ==
    IF ws.stmts = <<>>
    THEN ws.val
    ELSE <<"Block", Append(ws.stmts, <<"Expr", ws.val>>)>>

\* stmts_block: the block of a lone block statement, or a new block.
stmts_block(stmts) ==
    IF Len(stmts) = 1 /\ stmts[1][1] = "Expr" /\ stmts[1][2][1] = "Block"
    THEN stmts[1][2][2]
    ELSE stmts

\* with_stmts_opt
with_stmts_opt(opt) ==
    IF opt = None THEN WithStmts_new(None) ELSE WithStmts(opt[1].stmts, Some(opt[1].val))

\* bool_to_int without its cast: the comparison handed on as it is.
bool_to_int_bare(val) == val

\* bool_to_int
bool_to_int(val) == <<"Cast", val, <<"Ty", <<"libc", "c_int">>>>>>

\* WithStmts::map, at its one use: .map(bool_to_int)
map_bool_to_int(ws) == WithStmts(ws.stmts, bool_to_int(ws.val))

\* ------------------------------------------- results of the lowering

\* `self` is the mutable part of Translation that the lowering threads:
\* [renamer, lowered].  A result is a WithStmts (or, for a statement, the
\* statement list in stmts) with the `self` it left, or a panic with the
\* `self` at the point of the panic.
Ok(stmts, val, self) == [ok |-> TRUE, stmts |-> stmts, val |-> val, self |-> self]
Panic(self) == [ok |-> FALSE, stmts |-> <<>>, val |-> <<>>, self |-> self]

\* `let v = ...;` and a call whose panic unwinds through the caller.
Let(v, F(_)) == F(v)
Try(r, F(_)) == IF r.ok THEN F(r) ELSE r

\* History: the WithStmts that node `id` lowered to.
Lowered(id, r) ==
    IF r.ok
    THEN [r EXCEPT !.self.lowered = (id :> WithStmts(r.stmts, r.val)) @@ @]
    ELSE r

\* self.renamer.add_scope() and self.renamer.drop_scope()
self_add_scope(self) == [self EXCEPT !.renamer = add_scope(@)]

\* drop_scope left out: the scope stays on the stack.
self_keep_scope(self) == self

self_drop_scope(self) == [self EXCEPT !.renamer = drop_scope(@)]

\* ------------------------------------------------ Translation: operators

\* Translation::convert_addition
convert_addition(lhs_type, rhs_type, lhs, rhs) ==
    LET lhs_ty == resolve_type(lhs_type)
        rhs_ty == resolve_type(rhs_type)
    IN  IF is_pointer(lhs_ty)
        THEN <<"MethodCall", lhs, "offset", <<rhs>>>>
        ELSE IF is_pointer(rhs_ty)
        THEN <<"MethodCall", rhs, "offset", <<lhs>>>>
        ELSE IF is_unsigned_integral_type(lhs_ty)
        THEN <<"MethodCall", lhs, "wrapping_add", <<rhs>>>>
        ELSE <<"Binary", "Add", lhs, rhs>>

\* convert_subtraction with the tests of lhs_type and rhs_type exchanged.
convert_subtraction_lhs_first(lhs_type, rhs_type, lhs, rhs) ==
    LET lhs_ty == resolve_type(lhs_type)
        rhs_ty == resolve_type(rhs_type)
    IN  IF is_pointer(lhs_ty)
        THEN <<"MethodCall", lhs, "offset", << <<"Unary", "Neg", rhs>> >>>>
        ELSE IF is_pointer(rhs_ty)
        THEN <<"MethodCall", rhs, "offset_to", <<lhs>>>>
        ELSE IF is_unsigned_integral_type(lhs_ty)
        THEN <<"MethodCall", lhs, "wrapping_sub", <<rhs>>>>
        ELSE <<"Binary", "Sub", lhs, rhs>>

\* Translation::convert_subtraction
convert_subtraction(lhs_type, rhs_type, lhs, rhs) ==
    LET lhs_ty == resolve_type(lhs_type)
        rhs_ty == resolve_type(rhs_type)
    IN  IF is_pointer(rhs_ty)
        THEN <<"MethodCall", rhs, "offset_to", <<lhs>>>>
        ELSE IF is_pointer(lhs_ty)
        THEN <<"MethodCall", lhs, "offset", << <<"Unary", "Neg", rhs>> >>>>
        ELSE IF is_unsigned_integral_type(lhs_ty)
        THEN <<"MethodCall", lhs, "wrapping_sub", <<rhs>>>>
        ELSE <<"Binary", "Sub", lhs, rhs>>

\* Translation::convert_assignment: compute_lhs (let ref mut p = lhs) is
\* built and left out of the statements returned.
convert_assignment(self, lhs, rhs) ==
    Let(fresh(self.renamer), LAMBDA f :
        LET ptr_name == f.name
            compute_lhs == <<"Local", "ref mut", ptr_name, None, Some(lhs)>>
            deref_lhs == <<"Unary", "*", <<"Path", ptr_name>>>>
            assign_stmt == <<"Expr", <<"Assign", deref_lhs, rhs>>>>
        IN  Ok(<<assign_stmt>>, deref_lhs, [self EXCEPT !.renamer = f.rn]))

RECURSIVE convert_binary_operator(_, _, _, _, _, _, _, _)

\* Translation::convert_binary_assignment
convert_binary_assignment(self, name, ty, ctype, lhs_type, rhs_type, lhs, rhs) ==
    Let(fresh(self.renamer), LAMBDA f :
        LET ptr_name == f.name
            compute_lhs == <<"Local", "ref mut", ptr_name, None, Some(lhs)>>
            deref_lhs == <<"Unary", "*", <<"Path", ptr_name>>>>
        IN  Try(convert_binary_operator([self EXCEPT !.renamer = f.rn], name, ty, ctype,
                                        lhs_type, rhs_type, deref_lhs, rhs),
                LAMBDA val :
                    LET assign_stmt == <<"Assign", deref_lhs, val.val>>
                    IN  Ok(<<compute_lhs>> \o val.stmts \o << <<"Expr", assign_stmt>> >>,
                           deref_lhs, val.self)))

\* Translation::convert_binary_operator
convert_binary_operator(self, name, ty, ctype, lhs_type, rhs_type, lhs, rhs) ==
    LET new(val) == Ok(<<>>, val, self)
        rel(kind) ==
            Let(map_bool_to_int(WithStmts_new(<<"Binary", kind, lhs, rhs>>)),
                LAMBDA ws : Ok(ws.stmts, ws.val, self))
        assign(op) ==
            convert_binary_assignment(self, op, ty, ctype, lhs_type, rhs_type, lhs, rhs)
    IN  CASE name = "+" -> new(convert_addition(lhs_type, rhs_type, lhs, rhs))
          [] name = "-" -> new(convert_subtraction(lhs_type, rhs_type, lhs, rhs))
          [] name = "*" /\ is_unsigned_integral_type(ctype) ->
                new(<<"MethodCall", lhs, "wrapping_mul", <<rhs>>>>)
          [] name = "*" /\ ~is_unsigned_integral_type(ctype) ->
                new(<<"Binary", "Mul", lhs, rhs>>)
          [] name = "/" /\ is_unsigned_integral_type(ctype) ->
                new(<<"MethodCall", lhs, "wrapping_div", <<rhs>>>>)
          [] name = "/" /\ ~is_unsigned_integral_type(ctype) ->
                new(<<"Binary", "Div", lhs, rhs>>)
          [] name = "%" /\ is_unsigned_integral_type(ctype) ->
                new(<<"MethodCall", lhs, "wrapping_rem", <<rhs>>>>)
          [] name = "%" /\ ~is_unsigned_integral_type(ctype) ->
                new(<<"Binary", "Rem", lhs, rhs>>)
          [] name = "^"  -> new(<<"Binary", "BitXor", lhs, rhs>>)
          [] name = ">>" -> new(<<"Binary", "Shr", lhs, rhs>>)
          [] name = "==" -> rel("Eq")
          [] name = "!=" -> rel("Ne")
          [] name = "<"  -> rel("Lt")
          [] name = ">"  -> rel("Gt")
          [] name = ">=" -> rel("Ge")
          [] name = "<=" -> rel("Le")
          [] name = "&&" -> new(<<"Binary", "And", lhs, rhs>>)
          [] name = "||" -> new(<<"Binary", "Or", lhs, rhs>>)
          [] name = "&"  -> new(<<"Binary", "BitAnd", lhs, rhs>>)
          [] name = "|"  -> new(<<"Binary", "BitOr", lhs, rhs>>)
          [] name = "+="  -> assign("+")
          [] name = "-="  -> assign("-")
          [] name = "*="  -> assign("*")
          [] name = "/="  -> assign("/")
          [] name = "%="  -> assign("%")
          [] name = "^="  -> assign("^")
          [] name = "<<=" -> assign("<<")
          [] name = ">>=" -> assign(">>")
          [] name = "|="  -> assign("|")
          [] name = "&="  -> assign("&")
          [] name = "="   -> convert_assignment(self, lhs, rhs)
          [] OTHER        -> Panic(self)

\* Translation::convert_unary_operator
convert_unary_operator(self, name, ctype, ty, arg) ==
    IF name = "&"
    THEN Ok(<<>>, <<"Cast", <<"AddrOf", arg>>, ty>>, self)
    ELSE Panic(self)

\* ---------------------------------------------- Translation: expressions

\* node.children[i]: None stands for the panic of expect()/unwrap() on a
\* null child as for an index out of range.
child(node, i) == IF i <= Len(node.children) THEN node.children[i] ELSE None

\* The node of an Option of an id, and the type of an Option of a node.
node_of(opt_id) == IF opt_id = None THEN None ELSE get_node(opt_id[1])
type_of(opt_node) ==
    IF opt_node = None
    THEN None
    ELSE IF opt_node[1].type_id = None THEN None ELSE get_type(opt_node[1].type_id[1])

RECURSIVE convert_expr(_, _)
RECURSIVE convert_expr_node(_, _, _)
RECURSIVE convert_call_children(_, _, _, _, _)

\* The loop over node.children with the prefix of each child put before
\* those of the children lowered so far.
RECURSIVE convert_call_children_prepending(_, _, _, _, _)
convert_call_children_prepending(self, children, i, stmts, exprs) ==
    IF i > Len(children) THEN Ok(stmts, exprs, self)
    ELSE IF children[i] = None THEN Panic(self)
    ELSE Try(convert_expr(self, children[i][1]), LAMBDA res :
            convert_call_children_prepending(res.self, children, i + 1,
                                             res.stmts \o stmts, Append(exprs, res.val)))

\* The loop of the TagCallExpr arm over node.children.
convert_call_children(self, children, i, stmts, exprs) ==
    IF i > Len(children) THEN Ok(stmts, exprs, self)
    ELSE IF children[i] = None THEN Panic(self)
    ELSE Try(convert_expr(self, children[i][1]), LAMBDA res :
            convert_call_children(res.self, children, i + 1,
                                  stmts \o res.stmts, Append(exprs, res.val)))

\* Translation::convert_expr
convert_expr(self, expr_id) ==
    Let(get_node(expr_id), LAMBDA node :
        IF node = None THEN Panic(self) ELSE convert_expr_node(self, expr_id, node[1]))

\* Translation::convert_expr_node; `id` is the node's id, for the history.
convert_expr_node(self, id, node) ==
    Lowered(id,
      CASE node.tag = "TagDeclRefExpr" ->
            Let(node_of(child(node, 1)), LAMBDA decl :
            Let(IF decl = None THEN None ELSE get_decl_name(decl[1]), LAMBDA varname :
            Let(IF varname = None THEN None ELSE get(self.renamer, varname[1]),
                LAMBDA rustname :
                    IF rustname = None THEN Panic(self)
                    ELSE Ok(<<>>, <<"Path", rustname[1]>>, self))))
        [] node.tag \in {"TagIntegerLiteral", "TagCharacterLiteral"} ->
            Let(expect_u64(node.extras, 1), LAMBDA val :
                IF val = None THEN Panic(self)
                ELSE IF type_of(Some(node)) = None THEN Panic(self)
                ELSE Ok(<<>>, <<"Lit", val[1]>>, self))
        [] node.tag = "TagFloatingLiteral" ->
            Let(expect_f64(node.extras, 1), LAMBDA val :
                IF val = None THEN Panic(self)
                ELSE Ok(<<>>, <<"FloatLit", ToString(val[1])>>, self))
        [] node.tag = "TagImplicitCastExpr" ->
            Let(child(node, 1), LAMBDA sub :
                IF sub = None THEN Panic(self) ELSE convert_expr(self, sub[1]))
        [] node.tag = "TagUnaryOperator" ->
            Let(expect_string(node.extras, 1), LAMBDA name :
            Let(child(node, 1), LAMBDA sub :
                IF name = None THEN Panic(self)
                ELSE IF sub = None THEN Panic(self)
                ELSE Try(convert_expr(self, sub[1]), LAMBDA arg :
                     Let(type_of(Some(node)), LAMBDA cty :
                        IF cty = None THEN Panic(arg.self)
                        ELSE Try(convert_unary_operator(arg.self, name[1], cty[1],
                                     convert_type(node.type_id[1]), arg.val),
                                 LAMBDA unary :
                                    Ok(arg.stmts \o unary.stmts, unary.val, unary.self))))))
        [] node.tag = "TagBinaryOperator" ->
            Let(expect_string(node.extras, 1), LAMBDA name :
            Let(child(node, 1), LAMBDA lhs_id :
            Let(node_of(lhs_id), LAMBDA lhs_node :
            Let(type_of(lhs_node), LAMBDA lhs_ty :
                IF name = None THEN Panic(self)
                ELSE IF lhs_ty = None THEN Panic(self)
                ELSE Try(convert_expr_node(self, lhs_id[1], lhs_node[1]), LAMBDA lhs :
                     Let(child(node, 2), LAMBDA rhs_id :
                     Let(node_of(rhs_id), LAMBDA rhs_node :
                     Let(type_of(rhs_node), LAMBDA rhs_ty :
                        IF rhs_ty = None THEN Panic(lhs.self)
                        ELSE Try(convert_expr_node(lhs.self, rhs_id[1], rhs_node[1]),
                                 LAMBDA rhs :
                             Let(type_of(Some(node)), LAMBDA cty :
                                IF cty = None THEN Panic(rhs.self)
                                ELSE Try(convert_binary_operator(rhs.self, name[1],
                                             convert_type(node.type_id[1]), cty[1],
                                             lhs_ty[1], rhs_ty[1], lhs.val, rhs.val),
                                         LAMBDA bin :
                                            Ok(lhs.stmts \o rhs.stmts \o bin.stmts,
                                               bin.val, bin.self))))))))))))
        [] node.tag = "TagCallExpr" ->
            Try(convert_call_children(self, node.children, 1, <<>>, <<>>), LAMBDA all :
                IF all.val = <<>> THEN Panic(all.self)
                ELSE Ok(all.stmts, <<"Call", Head(all.val), Tail(all.val)>>, all.self))
        [] node.tag = "TagMemberExpr" ->
            Let(child(node, 1), LAMBDA sub :
                IF sub = None THEN Panic(self)
                ELSE Try(convert_expr(self, sub[1]), LAMBDA struct_val :
                     Let(node_of(child(node, 2)), LAMBDA field_node :
                     Let(IF field_node = None THEN None
                         ELSE expect_string(field_node[1].extras, 1), LAMBDA field_name :
                        IF field_name = None THEN Panic(struct_val.self)
                        ELSE Ok(struct_val.stmts,
                                <<"Field", struct_val.val, field_name[1]>>,
                                struct_val.self)))))
        [] OTHER -> Panic(self))

\* ----------------------------------------------- Translation: statements

RECURSIVE convert_stmt(_, _)
RECURSIVE convert_children(_, _, _, _, _)

\* Translation::convert_decl_stmt
convert_decl_stmt(self, decl_id) ==
    Let(get_node(decl_id), LAMBDA node :
        IF node = None THEN Panic(self)
        ELSE IF node[1].tag # "TagVarDecl" THEN Panic(self)
        ELSE Let(expect_string(node[1].extras, 1), LAMBDA var_name :
            IF var_name = None THEN Panic(self)
            ELSE Let(insert(self.renamer, var_name[1], var_name[1]), LAMBDA ins :
                IF ins.name = None THEN Panic([self EXCEPT !.renamer = ins.rn])
                ELSE Let(child(node[1], 1), LAMBDA init_id :
                     Try(IF init_id = None
                         THEN Ok(<<>>, None, [self EXCEPT !.renamer = ins.rn])
                         ELSE Let(convert_expr([self EXCEPT !.renamer = ins.rn], init_id[1]),
                                  LAMBDA x : IF x.ok THEN Ok(x.stmts, Some(x.val), x.self)
                                             ELSE x),
                         LAMBDA init :
                            IF type_of(node) = None THEN Panic(init.self)
                            ELSE Ok(Append(init.stmts,
                                           <<"Local", "mut", ins.name[1],
                                             Some(convert_type(node[1].type_id[1])),
                                             init.val>>),
                                    <<>>, init.self))))))

\* Translation::convert_return_stmt
convert_return_stmt(self, result_id) ==
    Try(IF result_id = None
        THEN Ok(<<>>, None, self)
        ELSE Let(convert_expr(self, result_id[1]),
                 LAMBDA x : IF x.ok THEN Ok(x.stmts, Some(x.val), x.self) ELSE x),
        LAMBDA ws :
            Ok(Append(ws.stmts, <<"Expr", <<"Return", ws.val>>>>), <<>>, ws.self))

\* Translation::convert_if_stmt
convert_if_stmt(self, cond_id, then_id, else_id) ==
    Try(convert_expr(self, cond_id), LAMBDA cond :
    Try(convert_stmt(cond.self, then_id), LAMBDA then_res :
    Try(IF else_id = None
        THEN Ok(<<>>, None, then_res.self)
        ELSE Let(convert_stmt(then_res.self, else_id[1]),
                 LAMBDA x : IF x.ok
                            THEN Ok(<<>>, Some(<<"Block", stmts_block(x.stmts)>>), x.self)
                            ELSE x),
        LAMBDA else_stmts :
            Ok(Append(cond.stmts,
                      <<"Expr", <<"If", cond.val, stmts_block(then_res.stmts),
                                  else_stmts.val>>>>),
               <<>>, else_stmts.self))))

\* convert_while_stmt with the prefix of the condition put before the loop.
convert_while_stmt_hoisted(self, cond_id, body_id) ==
    Try(convert_expr(self, cond_id), LAMBDA cond :
    Try(convert_stmt(cond.self, body_id), LAMBDA body :
        Ok(Append(cond.stmts, <<"Expr", <<"While", cond.val, stmts_block(body.stmts)>>>>),
           <<>>, body.self)))

\* Translation::convert_while_stmt
convert_while_stmt(self, cond_id, body_id) ==
    Try(convert_expr(self, cond_id), LAMBDA cond :
    Try(convert_stmt(cond.self, body_id), LAMBDA body :
        LET rust_cond == to_expr(WithStmts(cond.stmts, cond.val))
            rust_body == stmts_block(body.stmts)
        IN  Ok(<< <<"Expr", <<"While", rust_cond, rust_body>>>> >>, <<>>, body.self)))

\* The iterators over node.children: of a function body ("body": each
\* child unwrapped), of a CompoundStmt ("compound": null children left
\* out) and of a DeclStmt ("decls": each child unwrapped and lowered as a
\* declaration).
convert_children(self, children, i, stmts, kind) ==
    IF i > Len(children) THEN Ok(stmts, <<>>, self)
    ELSE IF children[i] = None
    THEN IF kind = "compound"
         THEN convert_children(self, children, i + 1, stmts, kind)
         ELSE Panic(self)
    ELSE Try(IF kind = "decls"
             THEN convert_decl_stmt(self, children[i][1])
             ELSE convert_stmt(self, children[i][1]),
             LAMBDA r : convert_children(r.self, children, i + 1, stmts \o r.stmts, kind))

\* Translation::convert_stmt
convert_stmt(self, stmt_id) ==
    Let(get_node(stmt_id), LAMBDA got :
        IF got = None THEN Panic(self)
        ELSE Let(got[1], LAMBDA node :
          CASE node.tag = "TagDeclStmt" ->
                convert_children(self, node.children, 1, <<>>, "decls")
            [] node.tag = "TagReturnStmt" ->
                IF Len(node.children) < 1 THEN Panic(self)
                ELSE convert_return_stmt(self, node.children[1])
            [] node.tag = "TagIfStmt" ->
                IF Len(node.children) < 3 THEN Panic(self)
                ELSE IF node.children[1] = None THEN Panic(self)
                ELSE IF node.children[2] = None THEN Panic(self)
                ELSE convert_if_stmt(self, node.children[1][1], node.children[2][1],
                                     node.children[3])
            [] node.tag = "TagWhileStmt" ->
                IF Len(node.children) < 2 THEN Panic(self)
                ELSE IF node.children[1] = None THEN Panic(self)
                ELSE IF node.children[2] = None THEN Panic(self)
                ELSE convert_while_stmt(self, node.children[1][1], node.children[2][1])
            [] node.tag = "TagNullStmt" -> Ok(<<>>, <<>>, self)
            [] node.tag = "TagCompoundStmt" ->
                Try(convert_children(self_add_scope(self), node.children, 1, <<>>,
                                     "compound"),
                    LAMBDA inner :
                        Ok(<< <<"Expr", <<"Block", stmts_block(inner.stmts)>>>> >>, <<>>,
                           self_drop_scope(inner.self)))
            [] OTHER ->
                Try(convert_expr(self, stmt_id), LAMBDA xs :
                    Ok(Append(xs.stmts, <<"Expr", xs.val>>), <<>>, xs.self))))

\* ------------------------------------------------ Translation: functions

\* Translation::convert_function_body; val is the block.
convert_function_body(self, body_id) ==
    Let(get_node(body_id), LAMBDA node :
        IF node = None THEN Panic(self)
        ELSE IF node[1].tag # "TagCompoundStmt" THEN Panic(self)
        ELSE Try(convert_children(self_add_scope(self), node[1].children, 1, <<>>, "body"),
                 LAMBDA inner :
                    Ok(<<>>, stmts_block(inner.stmts), self_drop_scope(inner.self))))

RECURSIVE convert_arguments(_, _, _, _)

\* The closure add_function maps over `arguments`, each <<name, type id>>.
convert_arguments(self, arguments, i, args) ==
    IF i > Len(arguments) THEN Ok(<<>>, args, self)
    ELSE Let(insert(self.renamer, arguments[i][1], arguments[i][1]), LAMBDA ins :
            IF ins.name = None THEN Panic([self EXCEPT !.renamer = ins.rn])
            ELSE convert_arguments([self EXCEPT !.renamer = ins.rn], arguments, i + 1,
                                   Append(args, <<convert_type(arguments[i][2]),
                                                  ins.name[1]>>)))

\* Translation::add_function; val is the item pushed on self.items.
add_function(self, name, arguments, return_type, body) ==
    Try(convert_arguments(self_add_scope(self), arguments, 1, <<>>), LAMBDA args :
    Try(convert_function_body(args.self, body), LAMBDA block :
        Ok(<<>>, <<"Fn", name, args.val, convert_type(return_type), block.val>>,
           self_drop_scope(block.self))))

\* ------------------------------------------------------------ translate

\* The body of the second loop of `translate` for a FunctionDecl x: its
\* name, return type, parameters and body are read, then add_function is
\* called.
translate_function(self, x) ==
    LET name == expect_string(x.extras, 1)
        ty == type_of(Some(x))
        args_n == Len(x.children) - 1
        bad_param(i) ==
            Let(node_of(child(x, i)), LAMBDA param :
                IF param = None THEN TRUE
                ELSE IF expect_string(param[1].extras, 1) = None THEN TRUE
                ELSE param[1].type_id = None)
        arg(i) ==
            Let(node_of(child(x, i))[1], LAMBDA param :
                <<expect_string(param.extras, 1)[1], param.type_id[1]>>)
    IN  IF name = None THEN Panic(self)
        ELSE Let(ty, LAMBDA t :
            IF t = None THEN Panic(self)
            ELSE IF t[1].tag # "TagFunctionType" THEN Panic(self)
            ELSE IF t[1].extras = <<>> THEN Panic(self)
            ELSE IF args_n < 0 THEN Panic(self)
            ELSE IF \E i \in 1..args_n : bad_param(i) THEN Panic(self)
            ELSE IF child(x, args_n + 1) = None THEN Panic(self)
            ELSE add_function(self, name[1], [i \in 1..args_n |-> arg(i)],
                              t[1].extras[1], child(x, args_n + 1)[1]))

\* The input scenarios: the operator table over every typing of the
\* operands; operators over operands that are expressions of every kind;
\* statements of every shape at every depth around every kind of
\* expression; and top-level lists of every shape.
BaseScenario ==
    [top |-> "plain", stmt |-> "return", nest |-> 0, tail |-> FALSE, nargs |-> 0,
     k0 |-> "bin", op0 |-> "+", ty0 |-> TypeIds.int,
     k1 |-> "ref", op1 |-> "+", ty1 |-> TypeIds.int,
     k2 |-> "ref", op2 |-> "+", ty2 |-> TypeIds.int]

SlotKinds == {"ref", "lit", "bin", "call", "member", "unary", "cast", "paren", "dangling"}
SlotOps == {"=", "+=", "<<=", "+", "<", "&&"}

TypingScenarios ==
    {[BaseScenario EXCEPT !.op0 = o, !.ty1 = t1, !.ty2 = t2, !.ty0 = t0] :
        o \in BinOps, t1 \in ExprTypes, t2 \in ExprTypes, t0 \in ExprTypes}

OperandScenarios ==
    {[BaseScenario EXCEPT !.stmt = s, !.op0 = o, !.k1 = k[1], !.op1 = k[2],
                          !.k2 = k[3], !.op2 = k[4]] :
        s \in {"expr", "return"}, o \in BinOps,
        k \in {<<"ref", "+", k2, "+">> : k2 \in SlotKinds \ {"bin", "unary"}}
              \cup {<<"ref", "+", "bin", o2>> : o2 \in SlotOps}
              \cup {<<"ref", "+", "unary", o2>> : o2 \in {"&", "-"}}
              \cup {<<"bin", o1, "ref", "+">> : o1 \in SlotOps}
              \cup {<<"bin", o1, "bin", o2>> : o1 \in {"=", "+="}, o2 \in {"=", "+="}}
              \cup {<<k1, "+", "ref", "+">> : k1 \in SlotKinds \ {"bin", "unary"}}}

StatementScenarios ==
    {[BaseScenario EXCEPT !.stmt = s, !.nest = n, !.tail = t, !.k0 = k[1], !.op0 = k[2],
                          !.nargs = k[3], !.k1 = k[4], !.op1 = "=", !.k2 = k[5],
                          !.op2 = "+="] :
        s \in StmtShapes, n \in 0..MaxNest, t \in BOOLEAN,
        k \in {<<k0, "+", 0, "ref", "ref">> :
                    k0 \in {"ref", "lit", "chr", "flt", "member", "cast", "paren"}}
              \cup {<<"unary", o, 0, "ref", "ref">> : o \in {"&", "-"}}
              \cup {<<"bin", o, 0, "ref", "ref">> : o \in SlotOps}
              \cup {<<"call", "+", n2, k1, k2>> :
                        n2 \in 0..MaxArgs, k1 \in {"ref", "bin"}, k2 \in {"ref", "bin"}}}

TopScenarios ==
    {[BaseScenario EXCEPT !.top = t, !.stmt = s, !.k0 = k] :
        t \in TopShapes, s \in {"return", "null"}, k \in {"ref", "call", "paren"}}

Scenarios ==
    TypingScenarios \cup OperandScenarios \cup StatementScenarios \cup TopScenarios

\* Translation::new on the AstContext handed to `translate`.
Init ==
    /\ ast_context \in Scenarios
    /\ items = <<>>
    /\ renamer = Renamer_new
    /\ lowered = <<>>
    /\ pc = "populate"
    /\ top_idx = 1
    /\ output = None

\* The end of an iteration over top_nodes: the next one, or past the loop.
Advance(after) ==
    IF top_idx < Len(top_nodes)
    THEN pc' = pc /\ top_idx' = top_idx + 1
    ELSE pc' = after /\ top_idx' = 1

\* One iteration of "Populate renamer with top-level names".
PopulateName ==
    /\ pc = "populate"
    /\ LET x == get_node(top_nodes[top_idx])
           y == IF x = None THEN None ELSE get_decl_name(x[1])
       IN  renamer' = IF y = None THEN renamer ELSE insert(renamer, y[1], y[1]).rn
    /\ Advance("translate")
    /\ UNCHANGED <<ast_context, items, lowered, output>>

\* One iteration of the second loop that leaves the node alone: its id is
\* in no table, or it is no FunctionDecl.
SkipTopNode ==
    /\ pc = "translate"
    /\ LET x == get_node(top_nodes[top_idx])
       IN  IF x = None THEN TRUE ELSE x[1].tag # "TagFunctionDecl"
    /\ Advance("emit")
    /\ UNCHANGED <<ast_context, items, renamer, lowered, output>>

\* The FunctionDecl the second loop is at, lowered: None when the loop is
\* at no FunctionDecl.
function_result ==
    Let(get_node(top_nodes[top_idx]), LAMBDA x :
        IF x = None THEN None
        ELSE IF x[1].tag # "TagFunctionDecl" THEN None
        ELSE Some(translate_function([renamer |-> renamer, lowered |-> lowered], x[1])))

\* One iteration of the second loop on a FunctionDecl: add_function
\* returns and the loop goes on, or the lowering panics and the
\* translation is abandoned, the Translation as the panic left it.
TranslateFunction ==
    /\ pc = "translate"
    /\ Let(function_result, LAMBDA r :
            /\ r # None
            /\ items' = IF r[1].ok THEN Append(items, r[1].val) ELSE items
            /\ renamer' = r[1].self.renamer
            /\ lowered' = r[1].self.lowered
            /\ IF r[1].ok THEN Advance("emit") ELSE pc' = "panicked" /\ top_idx' = top_idx)
    /\ UNCHANGED <<ast_context, output>>

\* The items are printed and returned.
Emit ==
    /\ pc = "emit"
    /\ output' = Some(items)
    /\ pc' = "done"
    /\ UNCHANGED <<ast_context, items, renamer, lowered, top_idx>>

Next == PopulateName \/ SkipTopNode \/ TranslateFunction \/ Emit

Spec == Init /\ [][Next]_vars

\* ---------------------------------------------------------------- claims

\* The input nodes that were lowered as expressions, and those among them
\* that are a BinaryOperator with a spelling in `ops`.
LoweredIds == DOMAIN lowered
InputNode(n) == NodeAt(ast_context, n)
BinaryNodes(ops) ==
    {n \in LoweredIds :
        /\ InputNode(n).tag = "TagBinaryOperator"
        /\ InputNode(n).extras[1][2] \in ops}
LhsOf(n) == lowered[InputNode(n).children[1][1]]
RhsOf(n) == lowered[InputNode(n).children[2][1]]
LhsType(n) == TypeTable[InputNode(InputNode(n).children[1][1]).type_id[1]]
RhsType(n) == TypeTable[InputNode(InputNode(n).children[2][1]).type_id[1]]
NodeType(n) == TypeTable[InputNode(n).type_id[1]]

Range(seq) == {seq[i] : i \in DOMAIN seq}
Deref(p) == <<"Unary", "*", <<"Path", p>>>>
IsDeref(e) == e[1] = "Unary" /\ e[2] = "*" /\ e[3][1] = "Path"
BindsRefMut(stmt, p, init) == stmt = <<"Local", "ref mut", p, None, Some(init)>>
Stores(stmt, p, val) == stmt = <<"Expr", <<"Assign", Deref(p), val>>>>

\* C1: lowering `lhs = rhs` yields a prefix that first binds a fresh
\* temporary p as a mutable reference to the lowered lhs, then stores
\* `*p = rhs`, and the value `*p`: the temporary of the value and of the
\* store is bound by an earlier statement of the same prefix.
C1_AssignmentBindsItsTemporary ==
    \A n \in BinaryNodes({"="}) :
        /\ IsDeref(lowered[n].val)
        /\ \E i, j \in DOMAIN lowered[n].stmts :
            /\ i < j
            /\ BindsRefMut(lowered[n].stmts[i], lowered[n].val[3][2], LhsOf(n).val)
            /\ Stores(lowered[n].stmts[j], lowered[n].val[3][2], RhsOf(n).val)

\* C2: for every assignment or compound assignment, the statement of the
\* node's prefix that binds the temporary to the lhs lvalue comes before
\* every statement of that prefix that the lowering of rhs produced.
C2_LhsBoundBeforeRhsPrefix ==
    \A n \in BinaryNodes(AssignOps) :
        /\ IsDeref(lowered[n].val)
        /\ \E i \in DOMAIN lowered[n].stmts :
            /\ BindsRefMut(lowered[n].stmts[i], lowered[n].val[3][2], LhsOf(n).val)
            /\ \A j \in DOMAIN lowered[n].stmts :
                lowered[n].stmts[j] \in Range(RhsOf(n).stmts) => i < j

\* C3: for a lowered `a && b` or `a || b`, no statement that the lowering
\* of b produced is a statement of the node's prefix, which runs whatever
\* a evaluates to.
C3_ShortCircuitKeepsRhsConditional ==
    \A n \in BinaryNodes(LogicOps) :
        \A j \in DOMAIN lowered[n].stmts :
            lowered[n].stmts[j] \notin Range(RhsOf(n).stmts)

\* The parts of the Rust AST: the expressions directly inside a statement
\* and directly inside an expression (those of its statements included),
\* and the names a statement list binds.
StmtExprs(stmt) ==
    IF stmt[1] = "Local" THEN stmt[5] ELSE <<stmt[2]>>
RECURSIVE StmtsExprs(_)
StmtsExprs(stmts) ==
    IF stmts = <<>> THEN <<>> ELSE StmtExprs(Head(stmts)) \o StmtsExprs(Tail(stmts))
StmtsNames(stmts) == {stmts[i][3] : i \in {j \in DOMAIN stmts : stmts[j][1] = "Local"}}
ExprParts(e) ==
    CASE e[1] \in {"Path", "Lit", "FloatLit"} -> <<>>
      [] e[1] = "Binary"     -> <<e[3], e[4]>>
      [] e[1] = "MethodCall" -> <<e[2]>> \o e[4]
      [] e[1] = "Cast"       -> <<e[2]>>
      [] e[1] = "Unary"      -> <<e[3]>>
      [] e[1] = "AddrOf"     -> <<e[2]>>
      [] e[1] = "Assign"     -> <<e[2], e[3]>>
      [] e[1] = "Call"       -> <<e[2]>> \o e[3]
      [] e[1] = "Field"      -> <<e[2]>>
      [] e[1] = "Block"      -> StmtsExprs(e[2])
      [] e[1] = "While"      -> <<e[2]>> \o StmtsExprs(e[3])
      [] e[1] = "If"         -> <<e[2]>> \o StmtsExprs(e[3]) \o e[4]
      [] e[1] = "Return"     -> e[2]
ExprNames(e) ==
    CASE e[1] = "Path"  -> {e[2]}
      [] e[1] = "Field" -> {e[3]}
      [] e[1] = "Block" -> StmtsNames(e[2])
      [] e[1] \in {"While", "If"} -> StmtsNames(e[3])
      [] OTHER -> {}

\* How often expression x occurs in expression e.
RECURSIVE SumOver(_, _, _)
RECURSIVE Occurrences(_, _)
SumOver(parts, i, x) ==
    IF i > Len(parts) THEN 0 ELSE Occurrences(parts[i], x) + SumOver(parts, i + 1, x)
Occurrences(e, x) ==
    IF e = x THEN 1 ELSE SumOver(ExprParts(e), 1, x)

\* The identifiers of an expression, of a statement list and of an item:
\* the names of paths, fields, bindings, parameters and items.  (Method
\* names and the paths of types are names of Rust, not of the input.)
RECURSIVE Identifiers(_)
Identifiers(e) ==
    ExprNames(e) \cup UNION {Identifiers(x) : x \in Range(ExprParts(e))}
ItemIdentifiers(item) ==
    {item[2]} \cup {item[3][i][2] : i \in DOMAIN item[3]}
        \cup Identifiers(<<"Block", item[5]>>)

\* The binary operator a compound assignment applies.
BaseOp(op) ==
    CASE op = "+=" -> "+"  [] op = "-=" -> "-"  [] op = "*=" -> "*"
      [] op = "/=" -> "/"  [] op = "%=" -> "%"  [] op = "^=" -> "^"
      [] op = "<<=" -> "<<" [] op = ">>=" -> ">>" [] op = "|=" -> "|"
      [] op = "&=" -> "&"

\* The lowering of the binary `l op r` with the types of node n through
\* the operator table.
TableLowering(n, op, l, r) ==
    convert_binary_operator([renamer |-> renamer, lowered |-> lowered], op,
                            convert_type(InputNode(n).type_id[1]), NodeType(n),
                            LhsType(n), RhsType(n), l, r)

\* The compound assignments of the input whose operands were both lowered.
CompoundNodes ==
    {n \in NodeIds(ast_context) :
        /\ InputNode(n).tag = "TagBinaryOperator"
        /\ InputNode(n).extras[1][2] \in CompoundOps
        /\ InputNode(n).children[1][1] \in LoweredIds
        /\ InputNode(n).children[2][1] \in LoweredIds}

\* C4: every compound assignment whose operands were lowered is lowered
\* too, to the operands' prefixes followed by [let ref mut p = lhs;
\* *p = V] and the value *p, V the lowering of `*p op rhs` through the
\* operator table; the store holds the lowered lhs no more often than the
\* lowered rhs does, so the lhs occurs once, in the binding of p.
C4_CompoundAssignmentThroughTable ==
    \A n \in CompoundNodes :
        /\ n \in LoweredIds
        /\ IsDeref(lowered[n].val)
        /\ LET stmts == lowered[n].stmts
               k == Len(stmts)
               p == lowered[n].val[3][2]
               V == TableLowering(n, BaseOp(InputNode(n).extras[1][2]),
                                  Deref(p), RhsOf(n).val)
           IN  /\ V.ok
               /\ k >= 2
               /\ SubSeq(stmts, 1, k - 2) = LhsOf(n).stmts \o RhsOf(n).stmts
               /\ BindsRefMut(stmts[k - 1], p, LhsOf(n).val)
               /\ Stores(stmts[k], p, V.val)
               /\ Occurrences(stmts[k][2], LhsOf(n).val)
                    = Occurrences(RhsOf(n).val, LhsOf(n).val)

\* The wrapping method of an arithmetic operator.
WrappingMethod(op) ==
    CASE op = "+" -> "wrapping_add" [] op = "-" -> "wrapping_sub"
      [] op = "*" -> "wrapping_mul" [] op = "/" -> "wrapping_div"
      [] op = "%" -> "wrapping_rem"
IsUnsigned(ty) == resolve_type(ty).tag = "TagUInt"
IsPointer(ty) == resolve_type(ty).tag = "TagPointer"

\* C5: an arithmetic operator whose operands and result have an unsigned
\* integral type, directly or through a chain of typedefs, lowers to the
\* wrapping method call on the lowered operands.
C5_UnsignedArithmeticWraps ==
    \A n \in BinaryNodes(ArithOps) :
        (IsUnsigned(LhsType(n)) /\ IsUnsigned(RhsType(n)) /\ IsUnsigned(NodeType(n)))
            => lowered[n].val =
                    <<"MethodCall", LhsOf(n).val,
                      WrappingMethod(InputNode(n).extras[1][2]), <<RhsOf(n).val>>>>

\* C6: with the operand types resolved through typedefs, `+` with exactly
\* one pointer operand lowers to ptr.offset(other); `-` with a pointer lhs
\* and an integer rhs to lhs.offset(-rhs); `-` with two pointers to
\* rhs.offset_to(lhs).
C6_PointerArithmeticThroughPrimitives ==
    /\ \A n \in BinaryNodes({"+"}) :
        /\ (IsPointer(LhsType(n)) /\ ~IsPointer(RhsType(n)))
            => lowered[n].val = <<"MethodCall", LhsOf(n).val, "offset", <<RhsOf(n).val>>>>
        /\ (~IsPointer(LhsType(n)) /\ IsPointer(RhsType(n)))
            => lowered[n].val = <<"MethodCall", RhsOf(n).val, "offset", <<LhsOf(n).val>>>>
    /\ \A n \in BinaryNodes({"-"}) :
        /\ (IsPointer(LhsType(n)) /\ ~IsPointer(RhsType(n)))
            => lowered[n].val =
                    <<"MethodCall", LhsOf(n).val, "offset",
                      << <<"Unary", "Neg", RhsOf(n).val>> >>>>
        /\ (IsPointer(LhsType(n)) /\ IsPointer(RhsType(n)))
            => lowered[n].val =
                    <<"MethodCall", RhsOf(n).val, "offset_to", <<LhsOf(n).val>>>>

\* A pointer difference whose operand types are pointers only through a
\* chain of typedefs of the greatest length has been lowered.
C6_Witness ==
    \E n \in BinaryNodes({"-"}) :
        /\ LhsType(n) = TypeTable[TypeIds.ptypedef + MaxTypedef]
        /\ RhsType(n) = TypeTable[TypeIds.ptypedef + MaxTypedef]
        /\ lowered[n].val[3] = "offset_to"

\* The constructs the lowering has an arm for: the tags of declarations,
\* statements and expressions, and the operator spellings that lower.
HandledTags ==
    {"TagFunctionDecl", "TagParmVarDecl", "TagVarDecl", "TagCompoundStmt", "TagDeclStmt",
     "TagReturnStmt", "TagIfStmt", "TagWhileStmt", "TagNullStmt", "TagDeclRefExpr",
     "TagIntegerLiteral", "TagCharacterLiteral", "TagFloatingLiteral",
     "TagImplicitCastExpr", "TagCallExpr", "TagMemberExpr"}
HandledBinOps ==
    ArithOps \cup BitOps \cup RelOps \cup LogicOps \cup (AssignOps \ {"<<="})
Handled(id) ==
    /\ id \in NodeIds(ast_context)
    /\ CASE InputNode(id).tag = "TagBinaryOperator" ->
                InputNode(id).extras[1][2] \in HandledBinOps
         [] InputNode(id).tag = "TagUnaryOperator" -> InputNode(id).extras[1][2] = "&"
         [] OTHER -> InputNode(id).tag \in HandledTags

\* The ids of the input below node id, itself included: the children that
\* are part of the construct (a DeclRefExpr and the field of a MemberExpr
\* point at a declaration elsewhere).
Parts(id) ==
    IF id \notin NodeIds(ast_context) THEN {}
    ELSE LET node == InputNode(id)
             kids == IF node.tag = "TagDeclRefExpr" THEN <<>>
                     ELSE IF node.tag = "TagMemberExpr" THEN SubSeq(node.children, 1, 1)
                     ELSE node.children
         IN  {kids[i][1] : i \in {j \in DOMAIN kids : kids[j] # None}}
RECURSIVE Below(_)
Below(id) == {id} \cup UNION {Below(c) : c \in Parts(id)}

\* C7: `translate` returns output only for an input whose top-level list
\* names FunctionDecls that are in the node table and below which every
\* id is in the table and every construct is one the lowering handles.
C7_UnhandledConstructAborts ==
    output # None =>
        \A i \in DOMAIN top_nodes :
            /\ top_nodes[i] \in NodeIds(ast_context)
            /\ InputNode(top_nodes[i]).tag = "TagFunctionDecl"
            /\ \A id \in Below(top_nodes[i]) : Handled(id)

\* C8: every identifier of the emitted items is a name the Renamer handed
\* out, and the name of each emitted function is a name the Renamer bound
\* in the top-level scope.
C8_IdentifiersFromRenamer ==
    \A i \in DOMAIN items :
        /\ ItemIdentifiers(items[i]) \subseteq renamer.used
        /\ \E c \in DOMAIN renamer.scopes[1] : renamer.scopes[1][c] = items[i][2]

\* C9: every step of `translate` that lowers a FunctionDecl, whether
\* add_function returns or panics, leaves the scope stack of the renamer
\* as deep as it found it.
C9_ScopesBalancedOnEveryExit ==
    [][(pc = "translate" /\ function_result # None)
            => Len(renamer'.scopes) = Len(renamer.scopes)]_vars

\* The comparison of a relational operator.
RelKind(op) ==
    CASE op = "==" -> "Eq" [] op = "!=" -> "Ne" [] op = "<" -> "Lt"
      [] op = ">" -> "Gt"  [] op = ">=" -> "Ge" [] op = "<=" -> "Le"

\* C10: a relational operator lowers to the cast to libc::c_int of the
\* comparison of its lowered operands, whatever their types, and its
\* prefix is the prefixes of its operands and nothing more.
C10_RelationalYieldsCInt ==
    \A n \in BinaryNodes(RelOps) :
        /\ lowered[n].val =
                <<"Cast",
                  <<"Binary", RelKind(InputNode(n).extras[1][2]), LhsOf(n).val, RhsOf(n).val>>,
                  <<"Ty", <<"libc", "c_int">>>>>>
        /\ lowered[n].stmts = LhsOf(n).stmts \o RhsOf(n).stmts

\* A comparison of a pointer (through typedefs) with an unsigned integer
\* has been lowered and emitted.
C10_Witness ==
    /\ pc = "done"
    /\ \E n \in BinaryNodes(RelOps) :
        /\ LhsType(n) = TypeTable[TypeIds.ptypedef + MaxTypedef]
        /\ RhsType(n) = TypeTable[TypeIds.uint]
        /\ lowered[n].val[1] = "Cast"

\* No binding of a statement list, nor of a block nested in it, takes a
\* name that is bound around it (`names`: the parameters and the locals
\* bound so far in the enclosing blocks).
RECURSIVE DistinctFromEnclosing(_, _, _)
DistinctFromEnclosing(stmts, i, names) ==
    IF i > Len(stmts) THEN TRUE
    ELSE IF stmts[i][1] = "Local"
    THEN /\ stmts[i][3] \notin names
         /\ DistinctFromEnclosing(stmts, i + 1, names \cup {stmts[i][3]})
    ELSE /\ IF stmts[i][2][1] = "Block"
            THEN DistinctFromEnclosing(stmts[i][2][2], 1, names)
            ELSE TRUE
         /\ DistinctFromEnclosing(stmts, i + 1, names)

\* C11: in every emitted function, a local declared in a nested block
\* under the C name of a parameter or of an outer local has a Rust name
\* of its own, and the `return a;` that follows the nested blocks refers
\* to the Rust name of the parameter a, however deep the blocks nest.
C11_ShadowingIsLexical ==
    \A i \in DOMAIN items :
        /\ DistinctFromEnclosing(items[i][5], 1,
                                 {items[i][3][j][2] : j \in DOMAIN items[i][3]})
        /\ (ast_context.tail /\ items[i][3] # <<>>)
            => items[i][5][Len(items[i][5])]
                    = <<"Expr", <<"Return", Some(<<"Path", items[i][3][1][2]>>)>>>>

\* A function with blocks nested to the greatest depth, each redeclaring
\* the parameter a, and a trailing `return a;` has been emitted, the
\* local of the outermost nested block under a name other than a's.
C11_Witness ==
    /\ pc = "done"
    /\ ast_context.nest = MaxNest
    /\ ast_context.tail
    /\ Len(items) = 1
    /\ items[1][5][1][2][1] = "Block"
    /\ items[1][5][1][2][2][1][1] = "Local"
    /\ items[1][5][1][2][2][1][3] # items[1][3][1][2]

\* The statements an emitted function holds for the statement under
\* translation: those of the innermost of the `n` nested blocks, after the
\* local each block declares, and without the trailing `return a;`.
RECURSIVE Peel(_, _)
Peel(stmts, n) ==
    IF n = 0 THEN stmts
    ELSE IF stmts[1][1] = "Local" THEN Peel(Tail(stmts), n - 1)
    ELSE Peel(Tail(stmts[1][2][2]), n - 1)
EmittedFor(item) ==
    LET stmts == Peel(item[5], ast_context.nest)
    IN  IF ast_context.nest = 0 /\ ast_context.tail
        THEN SubSeq(stmts, 1, Len(stmts) - 1)
        ELSE stmts
StmtTag == InputNode(StmtId(ast_context)).tag
Cond == lowered[Ids.e0]
FunctionItems == {i \in DOMAIN items : items[i][3] # <<>>}

\* C12: an IfStmt is emitted as the prefix of its condition followed by
\* one `if` on the value of the condition, no prefix statement in either
\* branch; a WhileStmt is emitted as one `while` and nothing else, its
\* condition the value when the prefix is empty and else the block of the
\* prefix with the value as trailing expression.
C12_ConditionPrefixPlacement ==
    \A i \in FunctionItems :
        LET stmts == EmittedFor(items[i])
            k == Len(Cond.stmts)
        IN  /\ StmtTag = "TagIfStmt" =>
                /\ Len(stmts) = k + 1
                /\ SubSeq(stmts, 1, k) = Cond.stmts
                /\ stmts[k + 1][1] = "Expr"
                /\ stmts[k + 1][2][1] = "If"
                /\ stmts[k + 1][2][2] = Cond.val
                /\ Range(stmts[k + 1][2][3]) \cap Range(Cond.stmts) = {}
                /\ stmts[k + 1][2][4] # None =>
                        Range(stmts[k + 1][2][4][1][2]) \cap Range(Cond.stmts) = {}
            /\ StmtTag = "TagWhileStmt" =>
                /\ Len(stmts) = 1
                /\ stmts[1][1] = "Expr"
                /\ stmts[1][2][1] = "While"
                /\ stmts[1][2][2] =
                        IF k = 0 THEN Cond.val
                        ELSE <<"Block", Cond.stmts \o << <<"Expr", Cond.val>> >> >>
                /\ Range(stmts[1][2][3]) \cap Range(Cond.stmts) = {}

\* A `while` whose condition is an assignment, inside nested blocks, has
\* been emitted: the condition has a prefix and became a block.
C12_Witness ==
    /\ pc = "done"
    /\ StmtTag = "TagWhileStmt"
    /\ ast_context.nest = MaxNest
    /\ Cond.stmts # <<>>
    /\ \E i \in FunctionItems : EmittedFor(items[i])[1][2][2][1] = "Block"

\* The prefixes of the lowered children of a node from the i-th on, one
\* after the other, and the values of those children.
RECURSIVE PrefixesFrom(_, _)
PrefixesFrom(children, i) ==
    IF i > Len(children) THEN <<>>
    ELSE lowered[children[i][1]].stmts \o PrefixesFrom(children, i + 1)
ValuesFrom(children, i) ==
    [j \in 1..(Len(children) - i + 1) |-> lowered[children[i + j - 1][1]].val]
CallNodes == {n \in LoweredIds : InputNode(n).tag = "TagCallExpr"}

\* C13: a CallExpr lowers to the prefixes of its children fn, arg1, ...,
\* argN one after the other in that order and to the call of the value of
\* fn with the values of arg1, ..., argN in that order.
C13_CallPrefixesInOrder ==
    \A n \in CallNodes :
        /\ lowered[n].stmts = PrefixesFrom(InputNode(n).children, 1)
        /\ lowered[n].val =
                <<"Call", lowered[InputNode(n).children[1][1]].val,
                  ValuesFrom(InputNode(n).children, 2)>>

\* A call with the greatest number of arguments, the first two of them
\* assignments with prefixes of their own, has been lowered and emitted.
C13_Witness ==
    /\ pc = "done"
    /\ Ids.e0 \in CallNodes
    /\ Len(InputNode(Ids.e0).children) = MaxArgs + 1
    /\ lowered[Ids.e1].stmts # <<>>
    /\ lowered[Ids.e2].stmts # <<>>
    /\ lowered[Ids.e1].stmts # lowered[Ids.e2].stmts

=============================================================================
